---- MODULE Spec2Model ----
(***************************************************************************)
(* Job dispatch and processing pipeline of ai-docgen:                      *)
(*   githubWebhook (intake)  -> jobs + pubsubQueue                         *)
(*   processPubSubQueue      -> reactive publisher (Firestore onCreate)    *)
(*   retryFailedQueueItems   -> scheduled sweeper                          *)
(*   analyzeRepoWorker / analyzeRepo -> subscribers of topic analyze-repo  *)
(* Every handler is a sequence of awaited calls; one action models one     *)
(* awaited call (or one loop iteration) so that handlers interleave at the *)
(* points where the code yields.                                           *)
(***************************************************************************)
EXTENDS Naturals, Integers, Sequences, FiniteSets, TLC

VARIABLES jobs, queue, results, bus, topicExists, intake, publisher,
          sweeper, workers, attempts, analysis

vars == <<jobs, queue, results, bus, topicExists, intake, publisher,
          sweeper, workers, attempts, analysis>>

(* ---- bounds ---------------------------------------------------------- *)
MaxJobs == 1
MaxResults == 2
MaxWorkers == 1
\* longest file list of a pr-analysis or push-analysis job
MaxChanged == 3
\* repository listings have 0 .. MaxListed files, about AnalysisCap files, or
\* ScenarioListing files
MaxListed == 2
ScenarioListing == 75
\* how many files of one job throw while they are read or analyzed
MaxFailures == 1
\* how many times the messages of one Job are picked up by a subscriber
MaxDeliveries == 2
\* how many different paths the commits of a push name
MaxPaths == 2

(* ---- program constants ----------------------------------------------- *)
MaxRetries == 3
BatchLimit == 10
AnalysisCap == 50
\* the number of commits of the push the test client sends
TestCommits == 2

(* ---- absent field values --------------------------------------------- *)
\* An absent error field is "none"; an absent resultId / messageId / jobId is 0
\* (document ids are numbered from 1).
NoError == "none"

Min(a, b) == IF a < b THEN a ELSE b

(* ---- inbound triggers ------------------------------------------------ *)
\* GitHubWebhookPayload, as far as githubWebhook reads it.  A ref is the
\* sequence of its "/"-separated segments; an absent action is "", an absent
\* ref is <<>>; repository, pull_request and sender say whether the object is
\* in the payload; commits is the list of the push's commits, each with its
\* modified, added and removed paths (absent: <<>>).
PullRequest(action) ==
  [event |-> "pull_request", action |-> action, ref |-> <<>>,
   repository |-> TRUE, pull_request |-> TRUE, sender |-> TRUE,
   commits |-> <<>>]

Push(ref) ==
  [event |-> "push", action |-> "", ref |-> ref,
   repository |-> TRUE, pull_request |-> FALSE, sender |-> TRUE,
   commits |-> <<>>]

Ping ==
  [event |-> "ping", action |-> "", ref |-> <<>>,
   repository |-> TRUE, pull_request |-> FALSE, sender |-> TRUE,
   commits |-> <<>>]

Refs ==
  { <<"refs", "heads", "main">>, <<"refs", "heads", "master">>,
    <<"refs", "heads", "feature-x">>, <<"refs", "heads", "feature", "main">>,
    <<"refs", "tags", "master">>, <<"main">>, <<>> }

Payloads ==
  {PullRequest(a) : a \in {"opened", "synchronize", "closed", "labeled", ""}}
    \cup {Push(r) : r \in Refs}
    \cup {Ping}
    \cup { [PullRequest("opened") EXCEPT !.pull_request = FALSE],
           [PullRequest("opened") EXCEPT !.sender = FALSE],
           [PullRequest("opened") EXCEPT !.repository = FALSE],
           [PullRequest("labeled") EXCEPT !.sender = FALSE],
           [PullRequest("labeled") EXCEPT !.repository = FALSE],
           [Push(<<"refs", "heads", "main">>) EXCEPT !.sender = FALSE],
           [Push(<<"refs", "heads", "main">>) EXCEPT !.repository = FALSE],
           [Push(<<"refs", "heads", "feature-x">>) EXCEPT !.repository = FALSE] }

\* The text of a request body: the payload's JSON as JSON.stringify writes
\* it ("compact"), or the same JSON written with other whitespace ("spaced").
Bodies == {"compact", "spaced"}

\* JSON.stringify(req.body), req.body being the parsed request body
Reserialized(body) == "compact"

\* process.env.GITHUB_WEBHOOK_SECRET || "dev-secret"
webhookSecret == "shared"

\* "sha256=" + HMAC-SHA256 of text under secret, in hex
Digest(text, secret) == <<"sha256", text, secret>>

\* the x-hub-signature-256 header: absent (<<>>), a value that is no digest,
\* or the digest of a text under a secret
Signatures ==
  { <<>>, <<"sha256", "invalidsignature">> }
    \cup {Digest(t, k) : t \in Bodies, k \in {webhookSecret, "other"}}

\* a delivery as GitHub sends it: compact body, signed over it
Signed(p) ==
  [event |-> p.event, action |-> p.action, ref |-> p.ref,
   repository |-> p.repository, pull_request |-> p.pull_request,
   sender |-> p.sender, commits |-> p.commits, body |-> "compact",
   signature |-> Digest("compact", webhookSecret)]

\* the requests intake is tried on: every payload as GitHub sends it, and
\* five payloads under every body text and signature header
Events ==
  {Signed(p) : p \in Payloads}
    \cup { [Signed(p) EXCEPT !.body = b, !.signature = sig]
           : p \in {PullRequest("opened"), PullRequest("labeled"),
                    Push(<<"refs", "heads", "main">>),
                    Push(<<"refs", "heads", "feature-x">>), Ping},
             b \in Bodies, sig \in Signatures }

\* the modified, added or removed paths of a commit
PathLists == {<<>>} \cup {<<path>> : path \in 1..MaxPaths}

Commits == [modified : PathLists, added : PathLists, removed : {<<>>, <<1>>}]

\* pushes to main as GitHub sends them, with up to TestCommits commits
PushEvents ==
  { Signed([Push(<<"refs", "heads", "main">>) EXCEPT !.commits = commits])
    : commits \in UNION {[1..n -> Commits] : n \in 0..TestCommits} }

\* the requests the relay and the workers are run behind: one or two per
\* outcome of githubWebhook
Deliveries ==
  { Signed(PullRequest("opened")),
    Signed(Push(<<"refs", "heads", "main">>)),
    Signed(PullRequest("labeled")),
    [Signed(Ping) EXCEPT !.signature = <<>>],
    Signed([Push(<<"refs", "heads", "main">>) EXCEPT !.sender = FALSE]) }

\* no request handled yet
NoRequest ==
  [event |-> "", action |-> "", ref |-> <<>>, repository |-> FALSE,
   pull_request |-> FALSE, sender |-> FALSE, commits |-> <<>>, body |-> "",
   signature |-> <<>>]

\* verifyGitHubSignature(payload, signature, secret): equal strings have
\* equal lengths, so the length test and timingSafeEqual come to equality.
verifyGitHubSignature(payload, signature, secret) ==
  /\ signature # <<>>
  /\ signature = Digest(payload, secret)

\* githubWebhook's call: verifyGitHubSignature(rawBody, signature, secret)
\* with rawBody = JSON.stringify(req.body)
Authorized(e) ==
  verifyGitHubSignature(Reserialized(e.body), e.signature, webhookSecret)

\* the action list also holding "labeled"
relevantActionsWithLabeled == {"opened", "synchronize", "closed", "labeled"}

relevantActions == {"opened", "synchronize", "closed"}

\* ref.endsWith("/main") || ref.endsWith("/master")
RefEndsWith(ref, name) == Len(ref) >= 2 /\ ref[Len(ref)] = name

\* !(!action || !relevantActions.includes(action))
PRAccepted(e) == e.action # "" /\ e.action \in relevantActions

\* the ref filter letting every ref through
PushAcceptedAnyRef(e) == e.ref # <<>>

\* !(!ref || (!ref.endsWith("/main") && !ref.endsWith("/master")))
PushAccepted(e) ==
  e.ref # <<>> /\ (RefEndsWith(e.ref, "main") \/ RefEndsWith(e.ref, "master"))

\* handlePullRequestEvent up to jobs.add: "none" when it returns false,
\* "error" when building jobData throws (payload.sender.login with no
\* sender), else the jobType of the Job it adds.
HandlePullRequestEvent(e) ==
  IF ~e.pull_request \/ ~PRAccepted(e) THEN "none"
  ELSE IF ~e.sender THEN "error"
  ELSE "pr-analysis"

\* handlePushEvent up to jobs.add, likewise
HandlePushEvent(e) ==
  IF ~PushAccepted(e) THEN "none"
  ELSE IF ~e.sender THEN "error"
  ELSE "push-analysis"

\* githubWebhook's switch (event)
Route(e) ==
  CASE e.event = "pull_request" -> HandlePullRequestEvent(e)
    [] e.event = "push" -> HandlePushEvent(e)
    [] OTHER -> "none"

\* building webhookEventData throws (payload.repository.full_name with no
\* repository), before the webhookEvents document is added
LogThrows(e) == ~e.repository

\* The job type of the Job an event creates, "" when it creates none.
JobTypeOf(e) ==
  IF Authorized(e) /\ ~LogThrows(e) /\ Route(e) \notin {"none", "error"}
    THEN Route(e)
    ELSE ""

(* ---- records --------------------------------------------------------- *)
\* an array push in the place of the Set's add
ArrayPush(list, file) == Append(list, file)

\* changedFiles.add(file) on the Set, kept as the list of its elements in
\* insertion order
SetAdd(list, file) ==
  IF \E k \in DOMAIN list : list[k] = file THEN list ELSE Append(list, file)

\* files.forEach((file) => changedFiles.add(file))
RECURSIVE AddAll(_, _)
AddAll(list, files) ==
  IF files = <<>> THEN list
  ELSE AddAll(SetAdd(list, Head(files)), Tail(files))

\* payload.commits?.forEach: each commit's modified paths, then its added
\* paths
RECURSIVE AddCommits(_, _)
AddCommits(list, commits) ==
  IF commits = <<>> THEN list
  ELSE AddCommits(AddAll(AddAll(list, Head(commits).modified),
                         Head(commits).added),
                  Tail(commits))

\* handlePushEvent: Array.from(changedFiles); a pull_request Job has no
\* changedFiles (absent: <<>>)
ChangedFiles(e) ==
  IF e.event = "push" THEN AddCommits(<<>>, e.commits) ELSE <<>>

\* jobData of handlePullRequestEvent / handlePushEvent
\* createdAt, startedAt and completedAt hold the number of times the field
\* has been written
NewJob(jobType) ==
  [jobType |-> jobType, status |-> "queued", resultId |-> 0,
   error |-> NoError, createdAt |-> 1, startedAt |-> 0, completedAt |-> 0,
   changedFiles |-> <<>>]

\* publishJobToPubSub writing the item as already published
NewQueueItemPublished(jobId) ==
  [jobId |-> jobId, published |-> TRUE, messageId |-> 0,
   error |-> NoError, retryCount |-> 0, permanentlyFailed |-> FALSE,
   lastAttemptAt |-> "never", changedFiles |-> <<>>]

\* the document publishJobToPubSub adds to pubsubQueue
NewQueueItem(jobId) ==
  [jobId |-> jobId, published |-> FALSE, messageId |-> 0,
   error |-> NoError, retryCount |-> 0, permanentlyFailed |-> FALSE,
   lastAttemptAt |-> "never", changedFiles |-> <<>>]

\* An invocation slot of the subscribers: error is the caught error's
\* message, outcome says how the slot's last invocation ended ("returned":
\* it returned, "thrown": its promise rejected).
IdleWorker ==
  [pc |-> "idle", handler |-> "", jobId |-> 0, resultId |-> 0,
   changedFiles |-> <<>>, error |-> NoError, outcome |-> ""]

Ended(outcome) == [IdleWorker EXCEPT !.outcome = outcome]

\* no processing routine is being followed file by file
NoAnalysis ==
  [pc |-> "idle", jobType |-> "", files |-> <<>>, filesToAnalyze |-> <<>>,
   i |-> 0, analysisResults |-> <<>>, submitted |-> <<>>, thrown |-> {},
   model |-> "", calls |-> <<>>, result |-> [type |-> ""]]

Init ==
  /\ jobs = <<>>
  /\ queue = <<>>
  /\ results = <<>>
  /\ bus = {}
  /\ topicExists \in BOOLEAN
  /\ intake = [pc |-> "idle", jobId |-> 0, response |-> "", logged |-> FALSE,
               request |-> NoRequest]
  /\ publisher = <<>>
  /\ sweeper = [pc |-> "idle", batch |-> {}]
  /\ workers = [w \in 1..MaxWorkers |-> IdleWorker]
  /\ attempts = <<>>
  /\ analysis = NoAnalysis

(* ---- Event Intake: githubWebhook ------------------------------------- *)
\* Requests are POSTs and are handled one at a time.  intake.request is the
\* request being handled (or handled last), intake.logged says whether its
\* webhookEvents document was added, intake.jobId is the Job it added (0:
\* none), intake.response is the answer.
\* res.status(...).send / .json({message | error}) of githubWebhook
Unauthorized == "Unauthorized"
JobCreated == "Webhook processed and job created"
NoJobCreated == "Webhook received but no job created"
InternalError == "Internal processing error"

\* the signature check fails: 401, return
RejectUnauthorized(e) ==
  /\ intake.pc = "idle"
  /\ ~Authorized(e)
  /\ intake' = [pc |-> "idle", jobId |-> 0, response |-> Unauthorized,
                logged |-> FALSE, request |-> e]
  /\ UNCHANGED <<analysis, jobs, queue, results, bus, topicExists, publisher, sweeper,
                 workers, attempts>>

\* a property read on an absent object throws inside the try block, before
\* the webhookEvents add or (the log written) before the jobs add: catch, 500
ProcessingError(e) ==
  /\ intake.pc = "idle"
  /\ Authorized(e)
  /\ LogThrows(e) \/ Route(e) = "error"
  /\ intake' = [pc |-> "idle", jobId |-> 0, response |-> InternalError,
                logged |-> ~LogThrows(e), request |-> e]
  /\ UNCHANGED <<analysis, jobs, queue, results, bus, topicExists, publisher, sweeper,
                 workers, attempts>>

\* githubWebhook up to and including db.collection("jobs").add(jobData) of
\* handlePullRequestEvent / handlePushEvent, for an event that passes the
\* signature check and the acceptance filter: the webhookEvents document and
\* the Job are added.
Receive(e) ==
  /\ intake.pc = "idle"
  /\ JobTypeOf(e) # ""
  /\ Len(jobs) < MaxJobs
  /\ jobs' = Append(jobs, [NewJob(JobTypeOf(e)) EXCEPT
                             !.changedFiles = ChangedFiles(e)])
  /\ intake' = [pc |-> "jobWritten", jobId |-> Len(jobs) + 1, response |-> "",
                logged |-> TRUE, request |-> e]
  /\ UNCHANGED <<analysis, queue, results, bus, topicExists, publisher, sweeper,
                 workers, attempts>>

\* githubWebhook for an event the filter turns away (handle*Event returns
\* false, or the event type is not routed): the webhookEvents document is
\* added; 200, no job created.
Ignore(e) ==
  /\ intake.pc = "idle"
  /\ Authorized(e)
  /\ ~LogThrows(e)
  /\ Route(e) = "none"
  /\ intake' = [pc |-> "idle", jobId |-> 0, response |-> NoJobCreated,
                logged |-> TRUE, request |-> e]
  /\ UNCHANGED <<analysis, jobs, queue, results, bus, topicExists, publisher, sweeper,
                 workers, attempts>>

\* publishJobToPubSub: the pubsubQueue add succeeds; its onCreate trigger is
\* pending for the new document.  handle*Event returns true: 200, job created.
PublishJobToPubSub ==
  /\ intake.pc = "jobWritten"
  /\ queue' = Append(queue, [NewQueueItem(intake.jobId) EXCEPT
                               !.changedFiles = ChangedFiles(intake.request)])
  /\ publisher' = Append(publisher, "triggered")
  /\ attempts' = Append(attempts, [accepted |-> 0, rejected |-> 0])
  /\ intake' = [intake EXCEPT !.pc = "idle", !.response = JobCreated]
  /\ UNCHANGED <<analysis, jobs, results, bus, topicExists, sweeper, workers>>

\* publishJobToPubSub: the pubsubQueue add rejects; githubWebhook's catch
\* answers 500 and nothing else is written.
PublishJobToPubSubFails ==
  /\ intake.pc = "jobWritten"
  /\ intake' = [intake EXCEPT !.pc = "idle", !.response = InternalError]
  /\ UNCHANGED <<analysis, jobs, queue, results, bus, topicExists, publisher, sweeper,
                 workers, attempts>>

(* ---- message bus ------------------------------------------------------ *)
\* topicRef.publish accepted: the message joins the topic and gets an id (the
\* ordinal of the message among those accepted for this queue item).
NextMessageId(q) == attempts[q].accepted + 1

Accept(q) ==
  /\ bus' = bus \cup {[jobId |-> queue[q].jobId, id |-> NextMessageId(q),
                       changedFiles |-> queue[q].changedFiles]}
  /\ attempts' = [attempts EXCEPT ![q].accepted = @ + 1]

Reject(q) ==
  /\ attempts' = [attempts EXCEPT ![q].rejected = @ + 1]
  /\ UNCHANGED bus

\* the messageId the invocation for q holds after an accepted publish
HeldMessageId(q) == attempts[q].accepted

(* ---- Relay + Publisher: processPubSubQueue --------------------------- *)
\* the catch block's queue item update
RecordError(item) ==
  [item EXCEPT !.error = "publish failed", !.lastAttemptAt = "recent",
               !.retryCount = @ + 1]

\* the try block's queue item update
MarkPublished(item, messageId) ==
  [item EXCEPT !.published = TRUE, !.messageId = messageId]

\* topicRef.exists() answers; with the topic present the publish follows.
\* (The invocation returns at once when the created document has
\* published = true.)
PEnsureTopic(q) ==
  /\ publisher[q] = "triggered"
  /\ ~queue[q].published
  /\ IF topicExists
       THEN \/ /\ Accept(q)
               /\ publisher' = [publisher EXCEPT ![q] = "markPublished"]
            \/ /\ Reject(q)
               /\ publisher' = [publisher EXCEPT ![q] = "recordError"]
       ELSE /\ publisher' = [publisher EXCEPT ![q] = "createTopic"]
            /\ UNCHANGED <<analysis, bus, attempts>>
  /\ UNCHANGED <<analysis, jobs, queue, results, topicExists, intake, sweeper, workers>>

\* topicRef.exists() or initializePubSub throws: the bus is unreachable.
PEnsureTopicFails(q) ==
  /\ publisher[q] = "triggered"
  /\ ~queue[q].published
  /\ Reject(q)
  /\ publisher' = [publisher EXCEPT ![q] = "recordError"]
  /\ UNCHANGED <<analysis, jobs, queue, results, topicExists, intake, sweeper, workers>>

\* pubsub.createTopic(topic): ALREADY_EXISTS when another run created it since
\* the exists() answer.
PCreateTopic(q) ==
  /\ publisher[q] = "createTopic"
  /\ IF topicExists
       THEN /\ Reject(q)
            /\ publisher' = [publisher EXCEPT ![q] = "recordError"]
            /\ UNCHANGED topicExists
       ELSE \/ /\ topicExists' = TRUE
               /\ publisher' = [publisher EXCEPT ![q] = "publish"]
               /\ UNCHANGED <<analysis, bus, attempts>>
            \/ /\ Reject(q)
               /\ publisher' = [publisher EXCEPT ![q] = "recordError"]
               /\ UNCHANGED topicExists
  /\ UNCHANGED <<analysis, jobs, queue, results, intake, sweeper, workers>>

\* topicRef.publish(messageBuffer) after createTopic
PPublish(q) ==
  /\ publisher[q] = "publish"
  /\ \/ /\ Accept(q)
        /\ publisher' = [publisher EXCEPT ![q] = "markPublished"]
     \/ /\ Reject(q)
        /\ publisher' = [publisher EXCEPT ![q] = "recordError"]
  /\ UNCHANGED <<analysis, jobs, queue, results, topicExists, intake, sweeper, workers>>

\* snapshot.ref.update({published: true, publishedAt, messageId})
PMarkPublished(q) ==
  /\ publisher[q] = "markPublished"
  /\ queue' = [queue EXCEPT ![q] = MarkPublished(@, HeldMessageId(q))]
  /\ publisher' = [publisher EXCEPT ![q] = "markDispatched"]
  /\ UNCHANGED <<analysis, jobs, results, bus, topicExists, intake, sweeper, workers,
                 attempts>>

\* jobs.doc(data.jobId).update({status: "dispatched", ...})
PMarkDispatched(q) ==
  /\ publisher[q] = "markDispatched"
  /\ jobs' = [jobs EXCEPT ![queue[q].jobId].status = "dispatched"]
  /\ publisher' = [publisher EXCEPT ![q] = "done"]
  /\ UNCHANGED <<analysis, queue, results, bus, topicExists, intake, sweeper, workers,
                 attempts>>

\* one of the two updates that follow the accepted publish rejects: control
\* passes to the catch block.
PWriteFails(q) ==
  /\ publisher[q] \in {"markPublished", "markDispatched"}
  /\ publisher' = [publisher EXCEPT ![q] = "recordError"]
  /\ UNCHANGED <<analysis, jobs, queue, results, bus, topicExists, intake, sweeper,
                 workers, attempts>>

\* catch: snapshot.ref.update({error, lastAttemptAt, retryCount: increment(1)})
PRecordError(q) ==
  /\ publisher[q] = "recordError"
  /\ queue' = [queue EXCEPT ![q] = RecordError(@)]
  /\ publisher' = [publisher EXCEPT ![q] = "failJob"]
  /\ UNCHANGED <<analysis, jobs, results, bus, topicExists, intake, sweeper, workers,
                 attempts>>

\* catch: jobs.doc(data.jobId).update({status: "failed", error}); throw error
PFailJob(q) ==
  /\ publisher[q] = "failJob"
  /\ jobs' = [jobs EXCEPT ![queue[q].jobId].status = "failed",
                          ![queue[q].jobId].error = "publish failed"]
  /\ publisher' = [publisher EXCEPT ![q] = "done"]
  /\ UNCHANGED <<analysis, queue, results, bus, topicExists, intake, sweeper, workers,
                 attempts>>

\* the invocation is ended by the platform (timeout, instance loss) before
\* its next write.
PStop(q) ==
  /\ publisher[q] \notin {"done"}
  /\ publisher' = [publisher EXCEPT ![q] = "done"]
  /\ UNCHANGED <<analysis, jobs, queue, results, bus, topicExists, intake, sweeper,
                 workers, attempts>>

(* ---- time ------------------------------------------------------------ *)
\* lastAttemptAt is kept relative to the sweeper's cut-off (now - 5 minutes):
\* "never" (field absent), "recent" (not before the cut-off), "old" (before
\* it).  Five minutes pass for queue item q.
Elapse(q) ==
  /\ queue[q].lastAttemptAt = "recent"
  /\ queue' = [queue EXCEPT ![q].lastAttemptAt = "old"]
  /\ UNCHANGED <<analysis, jobs, results, bus, topicExists, intake, publisher, sweeper,
                 workers, attempts>>

(* ---- Retry Sweeper: retryFailedQueueItems ---------------------------- *)
\* where published == false, error != null, lastAttemptAt < fiveMinutesAgo
SweepMatches(item) ==
  /\ item.published = FALSE
  /\ item.error # NoError
  /\ item.lastAttemptAt = "old"

\* the bound tested with > where the code has >=
MaxRetriesReachedLate(retryCount) == retryCount > MaxRetries

\* retryCount >= 3
MaxRetriesReached(retryCount) == retryCount >= MaxRetries

\* the try block's update after an accepted publish
RetryPublished(item, messageId) ==
  [item EXCEPT !.published = TRUE, !.messageId = messageId,
               !.error = NoError]

\* the query with limit(10): the run holds a snapshot of the selected
\* documents (their ids and the retryCount read).
SweepStart ==
  /\ sweeper.pc = "idle"
  /\ LET matching == {q \in DOMAIN queue : SweepMatches(queue[q])}
     IN /\ matching # {}
        /\ \E S \in SUBSET matching :
             /\ Cardinality(S) = Min(BatchLimit, Cardinality(matching))
             /\ sweeper' = [pc |-> "running",
                            batch |-> {[id |-> q,
                                        retryCount |-> queue[q].retryCount]
                                       : q \in S}]
  /\ UNCHANGED <<analysis, jobs, queue, results, bus, topicExists, intake, publisher,
                 workers, attempts>>

SweepAdvance(doc) ==
  sweeper' = IF sweeper.batch = {doc}
               THEN [pc |-> "idle", batch |-> {}]
               ELSE [sweeper EXCEPT !.batch = @ \ {doc}]

\* the give-up update also starting the retry count over
GiveUpResetting(item) ==
  [item EXCEPT !.permanentlyFailed = TRUE, !.retryCount = 0]

\* doc.ref.update({permanentlyFailed: true})
GiveUp(item) == [item EXCEPT !.permanentlyFailed = TRUE]

\* loop body, retryCount >= 3: mark permanentlyFailed, no publish
SweepGiveUp(doc) ==
  /\ sweeper.pc = "running"
  /\ doc \in sweeper.batch
  /\ MaxRetriesReached(doc.retryCount)
  /\ queue' = [queue EXCEPT ![doc.id] = GiveUp(@)]
  /\ SweepAdvance(doc)
  /\ UNCHANGED <<analysis, jobs, results, bus, topicExists, intake, publisher, workers,
                 attempts>>

\* the successful retry also writing the Job, as the reactive publisher does
SweepRetryOkDispatching(doc) ==
  /\ sweeper.pc = "running"
  /\ doc \in sweeper.batch
  /\ ~MaxRetriesReached(doc.retryCount)
  /\ topicExists
  /\ Accept(doc.id)
  /\ queue' = [queue EXCEPT ![doc.id] = RetryPublished(@, NextMessageId(doc.id))]
  /\ jobs' = [jobs EXCEPT ![queue[doc.id].jobId].status = "dispatched"]
  /\ SweepAdvance(doc)
  /\ UNCHANGED <<analysis, results, topicExists, intake, publisher, workers>>

\* loop body: the publish is accepted and the item is marked published
SweepRetryOk(doc) ==
  /\ sweeper.pc = "running"
  /\ doc \in sweeper.batch
  /\ ~MaxRetriesReached(doc.retryCount)
  /\ topicExists
  /\ Accept(doc.id)
  /\ queue' = [queue EXCEPT ![doc.id] = RetryPublished(@, NextMessageId(doc.id))]
  /\ SweepAdvance(doc)
  /\ UNCHANGED <<analysis, jobs, results, topicExists, intake, publisher, workers>>

\* loop body: the publish throws (bus unreachable, or the topic is missing:
\* this path does not create it); catch records the error.
SweepRetryFails(doc) ==
  /\ sweeper.pc = "running"
  /\ doc \in sweeper.batch
  /\ ~MaxRetriesReached(doc.retryCount)
  /\ Reject(doc.id)
  /\ queue' = [queue EXCEPT ![doc.id] = RecordError(@)]
  /\ SweepAdvance(doc)
  /\ UNCHANGED <<analysis, jobs, results, topicExists, intake, publisher, workers>>

\* loop body: the publish is accepted but the update that marks the item
\* published rejects; catch records the error.
SweepMarkFails(doc) ==
  /\ sweeper.pc = "running"
  /\ doc \in sweeper.batch
  /\ ~MaxRetriesReached(doc.retryCount)
  /\ topicExists
  /\ Accept(doc.id)
  /\ queue' = [queue EXCEPT ![doc.id] = RecordError(@)]
  /\ SweepAdvance(doc)
  /\ UNCHANGED <<analysis, jobs, results, topicExists, intake, publisher, workers>>

(* ---- Worker Dispatcher: analyzeRepoWorker, analyzeRepo ---------------- *)
\* Both functions subscribe to topic "analyze-repo"; the bus hands every
\* message to each of them, and may hand it over again.
Handlers == {"analyzeRepoWorker", "analyzeRepo"}

JobExists(jobId) == jobId \in DOMAIN jobs

\* update({status: "in-progress", startedAt, updatedAt})
InProgress(job) ==
  [job EXCEPT !.status = "in-progress", !.startedAt = @ + 1]

\* the completing update without its resultId field
CompletedUnlinked(job, resultId) ==
  [job EXCEPT !.status = "completed", !.completedAt = @ + 1]

\* update({status: "completed", completedAt, updatedAt, resultId, ...})
Completed(job, resultId) ==
  [job EXCEPT !.status = "completed", !.resultId = resultId,
              !.completedAt = @ + 1]

\* update({status: "failed", error, updatedAt})
Failed(job, error) == [job EXCEPT !.status = "failed", !.error = error]

\* the document resultRef.set writes
NewResult(jobId, handler) == [jobId |-> jobId, handler |-> handler]

\* results still to be written by running invocations
ResultsOwed == Cardinality({w \in DOMAIN workers : workers[w].pc = "process"})

\* the slot of an invocation of handler h for message m, past its first
\* update
Started(h, m) ==
  [IdleWorker EXCEPT !.pc = "process", !.handler = h, !.jobId = m.jobId,
                     !.changedFiles = m.changedFiles]

\* the catch block ending without its throw
Swallowed(worker) == Ended("returned")

\* the catch block's last statement: throw error
Rethrown(worker) == Ended("thrown")

\* a throw inside the invocation: analyzeRepoWorker passes to its catch
\* block with the error, analyzeRepo (which has none) ends with the
\* rejection
Caught(worker, error) ==
  IF worker.handler = "analyzeRepoWorker"
    THEN [worker EXCEPT !.pc = "catch", !.error = error]
    ELSE Ended("thrown")

\* A message is delivered to handler h, which starts and makes its first
\* update: jobs.doc(jobId).update({status: "in-progress", ...}).
Deliver(w, h, m) ==
  /\ workers[w].pc = "idle"
  /\ \A v \in 1..(w - 1) : workers[v].pc # "idle"
  /\ m \in bus
  /\ JobExists(m.jobId)
  /\ jobs[m.jobId].startedAt < MaxDeliveries
  /\ Len(results) + ResultsOwed < MaxResults
  /\ jobs' = [jobs EXCEPT ![m.jobId] = InProgress(@)]
  /\ workers' = [workers EXCEPT ![w] = Started(h, m)]
  /\ UNCHANGED <<analysis, queue, results, bus, topicExists, intake, publisher, sweeper,
                 attempts>>

\* analyzeRepoWorker: the job is read, the routine for its jobType returns
\* and resultRef.set stores the result.
\* analyzeRepo: resultRef.set stores the simulated result.
WStoreResult(w) ==
  /\ workers[w].pc = "process"
  /\ results' = Append(results, NewResult(workers[w].jobId, workers[w].handler))
  /\ workers' = [workers EXCEPT ![w].pc = "complete",
                                ![w].resultId = Len(results) + 1]
  /\ UNCHANGED <<analysis, jobs, queue, bus, topicExists, intake, publisher, sweeper,
                 attempts>>

\* the routine or resultRef.set throws: analyzeRepoWorker passes to its
\* catch block, analyzeRepo (which has none) ends with the rejection.
WProcessFails(w) ==
  /\ workers[w].pc = "process"
  /\ workers' = [workers EXCEPT ![w] = Caught(@, "processing failed")]
  /\ UNCHANGED <<analysis, jobs, queue, results, bus, topicExists, intake, publisher,
                 sweeper, attempts>>

\* jobs.doc(jobId).update({status: "completed", ..., resultId}); return
WComplete(w) ==
  /\ workers[w].pc = "complete"
  /\ JobExists(workers[w].jobId)
  /\ jobs' = [jobs EXCEPT ![workers[w].jobId] = Completed(@, workers[w].resultId)]
  /\ workers' = [workers EXCEPT ![w] = Ended("returned")]
  /\ UNCHANGED <<analysis, queue, results, bus, topicExists, intake, publisher, sweeper,
                 attempts>>

\* the completing update rejects: analyzeRepoWorker passes to its catch
\* block, analyzeRepo ends with the rejection.
WCompleteFails(w) ==
  /\ workers[w].pc = "complete"
  /\ workers' = [workers EXCEPT ![w] = Caught(@, "processing failed")]
  /\ UNCHANGED <<analysis, jobs, queue, results, bus, topicExists, intake, publisher,
                 sweeper, attempts>>

\* analyzeRepoWorker catch: update({status: "failed", error}); throw error
WCatch(w) ==
  /\ workers[w].pc = "catch"
  /\ JobExists(workers[w].jobId)
  /\ jobs' = [jobs EXCEPT ![workers[w].jobId] = Failed(@, workers[w].error)]
  /\ workers' = [workers EXCEPT ![w] = Rethrown(@)]
  /\ UNCHANGED <<analysis, queue, results, bus, topicExists, intake, publisher, sweeper,
                 attempts>>

\* analyzeRepoWorker, switch (jobType) default: throw new Error("Unknown job
\* type: ...")
WUnknownJobType(w) ==
  /\ workers[w].pc = "process"
  /\ workers[w].handler = "analyzeRepoWorker"
  /\ JobExists(workers[w].jobId)
  /\ jobs[workers[w].jobId].jobType \notin
       {"pr-analysis", "push-analysis", "initial-ingestion"}
  /\ workers' = [workers EXCEPT ![w] = Caught(@, "Unknown job type")]
  /\ UNCHANGED <<analysis, jobs, queue, results, bus, topicExists, intake,
                 publisher, sweeper, attempts>>

\* A message whose jobId names no Job document is delivered to handler h.
\* update() rejects for a missing document: analyzeRepoWorker passes to its
\* catch block; analyzeRepo logs the rejection and goes on.
DeliverOrphan(w, h, m) ==
  /\ workers[w].pc = "idle"
  /\ \A v \in 1..(w - 1) : workers[v].pc # "idle"
  /\ m \in bus
  /\ ~JobExists(m.jobId)
  /\ Len(results) + ResultsOwed < MaxResults
  /\ workers' = [workers EXCEPT ![w] =
                   IF h = "analyzeRepoWorker"
                     THEN Caught(Started(h, m), "No document to update")
                     ELSE Started(h, m)]
  /\ UNCHANGED <<analysis, jobs, queue, results, bus, topicExists, intake,
                 publisher, sweeper, attempts>>

\* analyzeRepoWorker catch for a missing Job document: the update to failed
\* rejects too and the invocation ends with that rejection
WCatchFails(w) ==
  /\ workers[w].pc = "catch"
  /\ ~JobExists(workers[w].jobId)
  /\ workers' = [workers EXCEPT ![w] = Ended("thrown")]
  /\ UNCHANGED <<analysis, jobs, queue, results, bus, topicExists, intake,
                 publisher, sweeper, attempts>>

(* ---- processing routines: processPRAnalysis, processPushAnalysis, ----- *)
(* ---- processInitialIngestion ------------------------------------------ *)
\* One invocation of analyzeRepoWorker (worker slot 1) followed file by file.
\* analysis.files is the list the routine gets (diffResult.files,
\* changedFiles, or the listing), each file a path (its place in the list)
\* and a status ("" where the list holds bare paths); analysis.i is the
\* number of loop iterations done; submitted and thrown record the paths
\* handed to readFile / analyzeFile and those for which that threw.
JobTypes == {"pr-analysis", "push-analysis", "initial-ingestion"}

Listings ==
  (0..MaxListed) \cup {AnalysisCap - 1, AnalysisCap, AnalysisCap + 1}
    \cup {ScenarioListing}

\* the changedFiles a delivered message may carry
ChangedLists(jobType) ==
  IF jobType = "push-analysis"
    THEN { [j \in 1..n |-> j] : n \in 0..MaxChanged }
    ELSE { <<>> }

\* the file lists a job of the type may come with: getPRChanges' files
\* (path j at position j, modified or deleted), the message's changedFiles,
\* listFiles' paths
FileLists(jobType) ==
  CASE jobType = "pr-analysis" ->
         UNION { { [j \in 1..n |-> [path |-> j, status |-> st[j]]]
                   : st \in [1..n -> {"modified", "deleted"}] }
                 : n \in 0..MaxChanged }
    [] jobType = "push-analysis" ->
         { [j \in DOMAIN workers[1].changedFiles |->
              [path |-> workers[1].changedFiles[j], status |-> ""]] }
    [] OTHER ->
         { [j \in 1..n |-> [path |-> j, status |-> ""]] : n \in Listings }

\* the last (end - start) elements instead of the elements start .. end
SliceLast(list, start, end) ==
  SubSeq(list, Len(list) - Min(end - start, Len(list)) + 1, Len(list))

\* Array.prototype.slice(start, end), 0 <= start <= end
Slice(list, start, end) == SubSeq(list, start + 1, Min(end, Len(list)))

PathsOf(list) == [j \in 1..Len(list) |-> list[j].path]

\* analyzeRepoWorker has loaded the Job and enters the routine of its
\* switch (jobType)
AEnter ==
  /\ analysis.pc = "idle"
  /\ workers[1].pc = "process"
  /\ workers[1].handler = "analyzeRepoWorker"
  /\ JobExists(workers[1].jobId)
  /\ analysis' = [NoAnalysis EXCEPT
                    !.pc = "start",
                    !.jobType = jobs[workers[1].jobId].jobType]
  /\ UNCHANGED <<jobs, queue, results, bus, topicExists, intake, publisher,
                 sweeper, workers, attempts>>

\* the routine is entered and has its file list; processInitialIngestion
\* keeps files.slice(0, 50)
AStart(files) ==
  /\ analysis.pc = "start"
  /\ analysis.jobType \in JobTypes
  /\ workers[1].pc = "process"
  /\ analysis' = [analysis EXCEPT
       !.pc = "loop", !.files = files,
       !.filesToAnalyze = IF analysis.jobType = "initial-ingestion"
                            THEN Slice(files, 0, AnalysisCap)
                            ELSE files]
  /\ UNCHANGED <<jobs, queue, results, bus, topicExists, intake, publisher,
                 sweeper, workers, attempts>>

\* the routine throws before its loop (cloneRepository or listFiles throws)
AStartThrows ==
  /\ analysis.pc = "start"
  /\ analysis.jobType \in JobTypes
  /\ workers[1].pc = "process"
  /\ analysis' = [analysis EXCEPT !.pc = "thrown"]
  /\ UNCHANGED <<jobs, queue, results, bus, topicExists, intake, publisher,
                 sweeper, workers, attempts>>

\* the file the next loop iteration takes
CurrentFile == analysis.filesToAnalyze[analysis.i + 1]

InLoop ==
  /\ analysis.pc = "loop"
  /\ analysis.i < Len(analysis.filesToAnalyze)

\* processPRAnalysis, file.status === "deleted": a minimal entry, continue
ADeletedFile ==
  /\ InLoop
  /\ CurrentFile.status = "deleted"
  /\ analysis' = [analysis EXCEPT
       !.i = @ + 1,
       !.analysisResults = Append(@, CurrentFile)]
  /\ UNCHANGED <<jobs, queue, results, bus, topicExists, intake, publisher,
                 sweeper, workers, attempts>>

\* try: readFile / analyzeFile return; analysisResults.push(...)
AAnalyzeFile ==
  /\ InLoop
  /\ CurrentFile.status # "deleted"
  /\ analysis' = [analysis EXCEPT
       !.i = @ + 1,
       !.submitted = Append(@, CurrentFile.path),
       !.analysisResults = Append(@, CurrentFile)]
  /\ UNCHANGED <<jobs, queue, results, bus, topicExists, intake, publisher,
                 sweeper, workers, attempts>>

\* the throw leaving the routine: no try around the file
ThrowEscapes(a) == [a EXCEPT !.pc = "thrown"]

\* catch (error) { logger.warn(...) }: on to the next file
AfterCatch(a) == [a EXCEPT !.i = @ + 1]

\* try: readFile or analyzeFile throws
AFileThrows ==
  /\ InLoop
  /\ CurrentFile.status # "deleted"
  /\ Cardinality(analysis.thrown) < MaxFailures
  /\ analysis' = AfterCatch([analysis EXCEPT
       !.submitted = Append(@, CurrentFile.path),
       !.thrown = @ \cup {CurrentFile.path}])
  /\ UNCHANGED <<jobs, queue, results, bus, topicExists, intake, publisher,
                 sweeper, workers, attempts>>

\* AIService: the constructor leaves model null when GEMINI_API_KEY is not
\* set, and a Gemini model otherwise
ApiKeys == {"", "key"}
AIService(apiKey) == IF apiKey = "" THEN "null" ELSE "gemini"
isAvailable(model) == model # "null"

\* what a call of model.generateContent does
CallOutcomes == {"text", "throws"}

\* callGemini: throws when the model is null or the call throws
callGemini(model, outcome) == IF model = "null" THEN "throws" ELSE outcome

Raised == [type |-> "", model |-> "raised"]
Fallback(kind) == [type |-> kind, model |-> "fallback"]

\* a generate operation without the catch around callGemini
GenerateRaising(kind, model, outcome) ==
  IF ~isAvailable(model) THEN Fallback(kind)
  ELSE IF callGemini(model, outcome) = "throws" THEN Raised
  ELSE [type |-> kind, model |-> model]

\* generatePRSummary, generateArchitectureOverview, generateOnboardingGuide:
\* the document of the requested kind, from the model or from the template
Generate(kind, model, outcome) ==
  IF ~isAvailable(model) THEN Fallback(kind)
  ELSE IF callGemini(model, outcome) = "throws" THEN Fallback(kind)
  ELSE [type |-> kind, model |-> model]

\* the kinds of document each routine asks for after its loop, in call order
Requested(jobType) ==
  CASE jobType = "pr-analysis" -> <<"pr-summary">>
    [] jobType = "push-analysis" -> <<"architecture">>
    [] OTHER -> <<"onboarding", "architecture">>

\* the outcomes of the calls a routine's generate operations can meet: no
\* call is made when the model is null
CallSeqs(jobType, model) ==
  IF isAvailable(model)
    THEN [DOMAIN Requested(jobType) -> CallOutcomes]
    ELSE {[k \in DOMAIN Requested(jobType) |-> "not called"]}

\* the documents a routine gets, in call order
Documentation(jobType, model, calls) ==
  [k \in DOMAIN Requested(jobType) |->
     Generate(Requested(jobType)[k], model, calls[k])]

\* the object the routine returns
ReturnValue(a, documentation) ==
  IF a.jobType = "initial-ingestion"
    THEN [type |-> a.jobType, totalFiles |-> Len(a.files),
          analyzedFiles |-> Len(a.analysisResults),
          files |-> a.analysisResults, documentation |-> documentation]
    ELSE [type |-> a.jobType, filesChanged |-> Len(a.files),
          files |-> a.analysisResults, documentation |-> documentation]

\* the loop is over: the documentation is generated and the routine returns
AReturn ==
  /\ analysis.pc = "loop"
  /\ analysis.i = Len(analysis.filesToAnalyze)
  /\ \E apiKey \in ApiKeys :
       \E calls \in CallSeqs(analysis.jobType, AIService(apiKey)) :
         LET model == AIService(apiKey)
             documentation == Documentation(analysis.jobType, model, calls)
         IN  analysis' =
               IF \E k \in DOMAIN documentation : documentation[k] = Raised
                 THEN [analysis EXCEPT !.pc = "thrown", !.model = model,
                                       !.calls = calls]
                 ELSE [analysis EXCEPT
                         !.pc = "returned", !.model = model, !.calls = calls,
                         !.result = ReturnValue(analysis, documentation)]
  /\ UNCHANGED <<jobs, queue, results, bus, topicExists, intake, publisher,
                 sweeper, workers, attempts>>

\* a job of some type has been delivered to analyzeRepoWorker, which has
\* written in-progress and read the job
Delivered(jobType) ==
  /\ \E changedFiles \in ChangedLists(jobType) :
       /\ jobs = << InProgress([NewJob(jobType) EXCEPT
                                 !.changedFiles = changedFiles]) >>
       /\ queue = << MarkPublished([NewQueueItem(1) EXCEPT
                                    !.changedFiles = changedFiles], 1) >>
       /\ bus = {[jobId |-> 1, id |-> 1, changedFiles |-> changedFiles]}
       /\ workers = [w \in 1..MaxWorkers |->
                       IF w = 1
                         THEN Started("analyzeRepoWorker",
                                      [jobId |-> 1, id |-> 1,
                                       changedFiles |-> changedFiles])
                         ELSE IdleWorker]
  /\ results = <<>>
  /\ topicExists = TRUE
  /\ intake = [pc |-> "idle", jobId |-> 0, response |-> "", logged |-> FALSE,
               request |-> NoRequest]
  /\ publisher = <<"done">>
  /\ sweeper = [pc |-> "idle", batch |-> {}]
  /\ attempts = << [accepted |-> 1, rejected |-> 0] >>
  /\ analysis = [NoAnalysis EXCEPT !.pc = "start", !.jobType = jobType]

AnalysisInit == \E jobType \in JobTypes : Delivered(jobType)

(* ---- specifications -------------------------------------------------- *)
\* the producer side (functions-api): intake, reactive publisher, sweeper
RelayNext ==
  \/ \E e \in Deliveries : RejectUnauthorized(e)
  \/ \E e \in Deliveries : ProcessingError(e)
  \/ \E e \in Deliveries : Receive(e)
  \/ \E e \in Deliveries : Ignore(e)
  \/ PublishJobToPubSub
  \/ PublishJobToPubSubFails
  \/ \E q \in DOMAIN queue : PEnsureTopic(q)
  \/ \E q \in DOMAIN queue : PEnsureTopicFails(q)
  \/ \E q \in DOMAIN queue : PCreateTopic(q)
  \/ \E q \in DOMAIN queue : PPublish(q)
  \/ \E q \in DOMAIN queue : PMarkPublished(q)
  \/ \E q \in DOMAIN queue : PMarkDispatched(q)
  \/ \E q \in DOMAIN queue : PWriteFails(q)
  \/ \E q \in DOMAIN queue : PRecordError(q)
  \/ \E q \in DOMAIN queue : PFailJob(q)
  \/ \E q \in DOMAIN queue : PStop(q)
  \/ \E q \in DOMAIN queue : Elapse(q)
  \/ SweepStart
  \/ \E doc \in sweeper.batch : SweepGiveUp(doc)
  \/ \E doc \in sweeper.batch : SweepRetryOk(doc)
  \/ \E doc \in sweeper.batch : SweepRetryFails(doc)
  \/ \E doc \in sweeper.batch : SweepMarkFails(doc)

\* the consumer side: the two subscribers of topic analyze-repo
WorkerNext ==
  \/ \E w \in DOMAIN workers, h \in Handlers, m \in bus : Deliver(w, h, m)
  \/ \E w \in DOMAIN workers : WStoreResult(w)
  \/ \E w \in DOMAIN workers : WProcessFails(w)
  \/ \E w \in DOMAIN workers : WComplete(w)
  \/ \E w \in DOMAIN workers : WCompleteFails(w)
  \/ \E w \in DOMAIN workers : WCatch(w)

Next == RelayNext \/ WorkerNext

\* intake alone: githubWebhook over every request of Events
IntakeNext ==
  \/ \E e \in Events : RejectUnauthorized(e)
  \/ \E e \in Events : ProcessingError(e)
  \/ \E e \in Events : Receive(e)
  \/ \E e \in Events : Ignore(e)
  \/ PublishJobToPubSub
  \/ PublishJobToPubSubFails

IntakeSpec == Init /\ [][IntakeNext]_vars

\* one analyzeRepoWorker invocation from its routine's entry to its end
AnalysisNext ==
  \/ \E files \in FileLists(analysis.jobType) : AStart(files)
  \/ AStartThrows
  \/ ADeletedFile
  \/ AAnalyzeFile
  \/ AFileThrows
  \/ AReturn
  \/ analysis.pc = "returned" /\ WStoreResult(1)
  \/ analysis.pc = "thrown" /\ WProcessFails(1)
  \/ WComplete(1)
  \/ WCatch(1)

AnalysisSpec == AnalysisInit /\ [][AnalysisNext]_vars

\* a message is on the bus whose jobId names no Job document (the Job was
\* removed, or the message was published by hand)
OrphanInit ==
  /\ jobs = <<>>
  /\ queue = <<>>
  /\ results = <<>>
  /\ bus = {[jobId |-> 1, id |-> 1, changedFiles |-> <<>>]}
  /\ topicExists = TRUE
  /\ intake = [pc |-> "idle", jobId |-> 0, response |-> "", logged |-> FALSE,
               request |-> NoRequest]
  /\ publisher = <<>>
  /\ sweeper = [pc |-> "idle", batch |-> {}]
  /\ workers = [w \in 1..MaxWorkers |-> IdleWorker]
  /\ attempts = <<>>
  /\ analysis = NoAnalysis

HandleInit ==
  \/ \E jobType \in JobTypes \cup {"delta-analysis"} : Delivered(jobType)
  \/ OrphanInit

\* one analyzeRepoWorker invocation with every way it can fail, and the
\* handling of a message without a Job
HandleNext ==
  \/ \E files \in FileLists(analysis.jobType) : AStart(files)
  \/ AStartThrows
  \/ ADeletedFile
  \/ AAnalyzeFile
  \/ AFileThrows
  \/ AReturn
  \/ analysis.pc = "start" /\ WUnknownJobType(1)
  \/ analysis.pc = "returned" /\ WStoreResult(1)
  \/ analysis.pc \in {"returned", "thrown"} /\ WProcessFails(1)
  \/ analysis.pc = "idle" /\ \E w \in DOMAIN workers : WStoreResult(w)
  \/ analysis.pc = "idle" /\ \E w \in DOMAIN workers : WProcessFails(w)
  \/ \E w \in DOMAIN workers : WComplete(w)
  \/ \E w \in DOMAIN workers : WCompleteFails(w)
  \/ \E w \in DOMAIN workers : WCatch(w)
  \/ \E w \in DOMAIN workers : WCatchFails(w)
  \/ \E w \in DOMAIN workers, h \in Handlers, m \in bus : DeliverOrphan(w, h, m)

HandleSpec == HandleInit /\ [][HandleNext]_vars

\* two webhooks were accepted one after the other before the topic was ever
\* created: processPubSubQueue has been triggered once for each queue item
RaceInit ==
  /\ jobs = << NewJob("pr-analysis"), NewJob("push-analysis") >>
  /\ queue = << NewQueueItem(1), NewQueueItem(2) >>
  /\ results = <<>>
  /\ bus = {}
  /\ topicExists = FALSE
  /\ intake = [pc |-> "idle", jobId |-> 0, response |-> "", logged |-> FALSE,
               request |-> NoRequest]
  /\ publisher = << "triggered", "triggered" >>
  /\ sweeper = [pc |-> "idle", batch |-> {}]
  /\ workers = [w \in 1..MaxWorkers |-> IdleWorker]
  /\ attempts = << [accepted |-> 0, rejected |-> 0],
                   [accepted |-> 0, rejected |-> 0] >>
  /\ analysis = NoAnalysis

\* the two invocations of processPubSubQueue, interleaved
RaceNext ==
  \/ \E q \in DOMAIN queue : PEnsureTopic(q)
  \/ \E q \in DOMAIN queue : PEnsureTopicFails(q)
  \/ \E q \in DOMAIN queue : PCreateTopic(q)
  \/ \E q \in DOMAIN queue : PPublish(q)
  \/ \E q \in DOMAIN queue : PMarkPublished(q)
  \/ \E q \in DOMAIN queue : PMarkDispatched(q)
  \/ \E q \in DOMAIN queue : PWriteFails(q)
  \/ \E q \in DOMAIN queue : PRecordError(q)
  \/ \E q \in DOMAIN queue : PFailJob(q)
  \/ \E q \in DOMAIN queue : PStop(q)

RaceSpec == RaceInit /\ [][RaceNext]_vars

\* the bus has just accepted the reactive publisher's publish for a Job
PublishedInit ==
  /\ \E jobType \in JobTypes : jobs = << NewJob(jobType) >>
  /\ queue = << NewQueueItem(1) >>
  /\ results = <<>>
  /\ bus = {[jobId |-> 1, id |-> 1, changedFiles |-> <<>>]}
  /\ topicExists = TRUE
  /\ intake = [pc |-> "idle", jobId |-> 0, response |-> "", logged |-> FALSE,
               request |-> NoRequest]
  /\ publisher = << "markPublished" >>
  /\ sweeper = [pc |-> "idle", batch |-> {}]
  /\ workers = [w \in 1..MaxWorkers |-> IdleWorker]
  /\ attempts = << [accepted |-> 1, rejected |-> 0] >>
  /\ analysis = NoAnalysis

\* the rest of the publisher's invocation interleaved with the subscribers'
\* handling of the message
DeliveryNext ==
  \/ \E q \in DOMAIN queue : PMarkPublished(q)
  \/ \E q \in DOMAIN queue : PMarkDispatched(q)
  \/ \E q \in DOMAIN queue : PWriteFails(q)
  \/ \E q \in DOMAIN queue : PRecordError(q)
  \/ \E q \in DOMAIN queue : PFailJob(q)
  \/ \E q \in DOMAIN queue : PStop(q)
  \/ \E w \in DOMAIN workers, h \in Handlers, m \in bus : Deliver(w, h, m)
  \/ \E w \in DOMAIN workers : WStoreResult(w)
  \/ \E w \in DOMAIN workers : WProcessFails(w)
  \/ \E w \in DOMAIN workers : WComplete(w)
  \/ \E w \in DOMAIN workers : WCompleteFails(w)
  \/ \E w \in DOMAIN workers : WCatch(w)

DeliverySpec == PublishedInit /\ [][DeliveryNext]_vars

\* one push from its webhook to the end of analyzeRepoWorker's handling of
\* its message
PushNext ==
  \/ jobs = <<>> /\ \E e \in PushEvents : Receive(e)
  \/ PublishJobToPubSub
  \/ \E q \in DOMAIN queue : PEnsureTopic(q)
  \/ \E q \in DOMAIN queue : PMarkPublished(q)
  \/ \E q \in DOMAIN queue : PMarkDispatched(q)
  \/ \E q \in DOMAIN queue : PRecordError(q)
  \/ \E q \in DOMAIN queue : PFailJob(q)
  \/ analysis.pc = "idle"
       /\ \E m \in bus : Deliver(1, "analyzeRepoWorker", m)
  \/ AEnter
  \/ analysis.pc = "start"
       /\ \E files \in FileLists(analysis.jobType) : AStart(files)
  \/ AAnalyzeFile
  \/ AFileThrows
  \/ AReturn
  \/ analysis.pc = "returned" /\ WStoreResult(1)
  \/ WComplete(1)

PushSpec == Init /\ [][PushNext]_vars

Spec == Init /\ [][Next]_vars

RelaySpec == Init /\ [][RelayNext]_vars

\* Every started intake request, every triggered publisher invocation, every
\* delivered message and every scheduled sweep runs on to its next step, and
\* time passes; only PStop (the platform ending an invocation) is not owed.
PublisherStep(q) ==
  /\ q \in DOMAIN queue
  /\ \/ PEnsureTopic(q) \/ PEnsureTopicFails(q) \/ PCreateTopic(q)
     \/ PPublish(q) \/ PMarkPublished(q) \/ PMarkDispatched(q)
     \/ PWriteFails(q) \/ PRecordError(q) \/ PFailJob(q)

SweeperStep ==
  \/ SweepStart
  \/ \E doc \in sweeper.batch :
       \/ SweepGiveUp(doc) \/ SweepRetryOk(doc)
       \/ SweepRetryFails(doc) \/ SweepMarkFails(doc)

Fairness ==
  /\ WF_vars(PublishJobToPubSub \/ PublishJobToPubSubFails)
  /\ \A q \in 1..MaxJobs : WF_vars(PublisherStep(q))
  /\ \A q \in 1..MaxJobs : WF_vars(q \in DOMAIN queue /\ Elapse(q))
  /\ WF_vars(SweeperStep)
  /\ WF_vars(WorkerNext)

FairSpec == Init /\ [][Next]_vars /\ Fairness

(* ====================================================================== *)
(* Properties of the pipeline (C1, C2, ...)                               *)
(* ====================================================================== *)
Terminal == {"completed", "failed"}

Rank(status) ==
  CASE status = "queued" -> 0
    [] status = "dispatched" -> 1
    [] status = "in-progress" -> 2
    [] OTHER -> 3

RelayEntriesOf(j) == {q \in DOMAIN queue : queue[q].jobId = j}

ResultsOf(j) == {r \in DOMAIN results : results[r].jobId = j}

\* a worker invocation for job j takes the step
WorkerActsOn(j) ==
  \E w \in DOMAIN workers :
    /\ workers'[w] # workers[w]
    /\ j \in {workers[w].jobId, workers'[w].jobId}

\* C1: once a handle invocation has driven a Job to completed or failed, no
\* step of a further handle invocation for the same job id changes the Job's
\* status, resultId or error.
C1_Original ==
  [][\A j \in DOMAIN jobs :
       ( /\ \/ jobs[j].status = "completed"
            \/ jobs[j].status = "failed" /\ jobs[j].error = "processing failed"
         /\ WorkerActsOn(j) )
       => /\ jobs'[j].status = jobs[j].status
          /\ jobs'[j].resultId = jobs[j].resultId
          /\ jobs'[j].error = jobs[j].error]_vars

\* C2: every step leaves each Job's status where it is or moves it forward
\* along queued -> dispatched -> in-progress -> {completed | failed}, and
\* leaves a completed or failed status unchanged.
C2_Original ==
  [][\A j \in DOMAIN jobs :
       /\ Rank(jobs'[j].status) >= Rank(jobs[j].status)
       /\ jobs[j].status \in Terminal => jobs'[j].status = jobs[j].status]_vars

\* C3: a completed or failed Job has exactly one of resultId and error set;
\* a queued, dispatched or in-progress Job has neither.
C3_Original ==
  \A j \in DOMAIN jobs :
    IF jobs[j].status \in Terminal
      THEN (jobs[j].resultId # 0) # (jobs[j].error # NoError)
      ELSE jobs[j].resultId = 0 /\ jobs[j].error = NoError

\* C4: at most one Result record carries a given Job's id, and a Result
\* record, once written, is never modified.
C4_Original ==
  /\ [](\A j \in DOMAIN jobs : Cardinality(ResultsOf(j)) <= 1)
  /\ [][\A r \in DOMAIN results : results'[r] = results[r]]_vars

\* C5: an accepted trigger that intake handles to its "job created" answer
\* has created exactly one Job, written with status queued, and exactly one
\* RelayEntry, written with published=false, whose payload carries that
\* Job's id.
C5_IntakeCreatesOneJobOneEntry ==
  /\ [](/\ intake.response = JobCreated =>
             /\ intake.jobId \in DOMAIN jobs
             /\ Cardinality(RelayEntriesOf(intake.jobId)) = 1
        /\ \A j \in DOMAIN jobs : Cardinality(RelayEntriesOf(j)) <= 1
        /\ \A q \in DOMAIN queue : queue[q].jobId \in DOMAIN jobs)
  /\ [][/\ Len(jobs') >= Len(jobs)
        /\ Len(queue') >= Len(queue)
        /\ Len(jobs') # Len(jobs) =>
             /\ Len(jobs') = Len(jobs) + 1
             /\ jobs'[Len(jobs')].status = "queued"
             /\ intake.pc = "idle" /\ intake'.pc = "jobWritten"
             /\ intake'.jobId = Len(jobs')
        /\ Len(queue') # Len(queue) =>
             /\ Len(queue') = Len(queue) + 1
             /\ queue'[Len(queue')].published = FALSE
             /\ queue'[Len(queue')].jobId = intake.jobId
             /\ intake.pc = "jobWritten" /\ intake'.response = JobCreated
        /\ (intake.pc = "jobWritten" /\ intake'.response = JobCreated) =>
             Len(queue') = Len(queue) + 1]_vars

C5_Witness ==
  /\ intake.response = JobCreated
  /\ jobs[intake.jobId].jobType = "push-analysis"
  /\ \E q \in DOMAIN queue :
       queue[q].jobId = intake.jobId /\ queue[q].published = FALSE

QueuedJob(j) ==
  IF j \in DOMAIN jobs THEN jobs[j].status = "queued" ELSE FALSE

RelayedOrNotQueued(j) ==
  IF j \in DOMAIN jobs
    THEN RelayEntriesOf(j) # {} \/ jobs[j].status # "queued"
    ELSE FALSE

\* C6: a queued Job is never left without a relay entry for good: whenever a
\* Job is queued, a RelayEntry carrying its id exists at some later point or
\* the Job leaves status queued.
C6_Original ==
  \A j \in 1..MaxJobs : [](QueuedJob(j) => <>RelayedOrNotQueued(j))

TurnedAwayThrice(q) ==
  IF q \in DOMAIN attempts THEN attempts[q].rejected >= MaxRetries ELSE FALSE

Unpublished(q) ==
  IF q \in DOMAIN queue THEN ~queue[q].published ELSE FALSE

Published(q) ==
  IF q \in DOMAIN queue THEN queue[q].published ELSE FALSE

\* C7: if no RelayEntry ever has three publish attempts turned away by the
\* bus, then under fair scheduling every RelayEntry eventually has
\* published=true.
C7_Original ==
  \A q \in 1..MaxJobs :
    [](~TurnedAwayThrice(q)) => [](Unpublished(q) => <>Published(q))

\* C8: for a RelayEntry the bus has accepted no publish of, at most 3 publish
\* attempts are ever made (reactive attempt and sweeper retries together),
\* and it is marked permanentlyFailed only once all 3 have failed.
C8_RetryBound ==
  \A q \in DOMAIN queue :
    attempts[q].accepted = 0 =>
      /\ attempts[q].rejected <= MaxRetries
      /\ queue[q].permanentlyFailed => attempts[q].rejected = MaxRetries

C8_Witness ==
  \E q \in DOMAIN queue :
    /\ attempts[q].accepted = 0
    /\ attempts[q].rejected = MaxRetries
    /\ queue[q].permanentlyFailed
    /\ sweeper.pc = "idle"

\* C9: a step of the reactive publisher for an entry whose publish the bus
\* turned away does not move the entry's Job to failed.
C9_Original ==
  [][\A q \in DOMAIN queue :
       ( /\ publisher'[q] # publisher[q]
         /\ attempts[q].accepted = 0
         /\ attempts[q].rejected > 0 )
       => ( jobs'[queue[q].jobId].status = "failed"
            => jobs[queue[q].jobId].status = "failed" )]_vars

\* C10: the Job of a RelayEntry that is marked permanentlyFailed is neither
\* failed nor completed, at the marking and ever after.
C10_Original ==
  \A q \in DOMAIN queue :
    queue[q].permanentlyFailed =>
      jobs[queue[q].jobId].status \notin Terminal

\* C11: once a RelayEntry has permanentlyFailed=true, every step leaves
\* permanentlyFailed true, published false and retryCount as it is, and no
\* step hands the entry's payload to the bus (neither an accepted nor a
\* rejected publish is made for it).
C11_ExcludedForGood ==
  [][\A q \in DOMAIN queue :
       queue[q].permanentlyFailed =>
         /\ queue'[q].permanentlyFailed
         /\ ~queue[q].published /\ ~queue'[q].published
         /\ queue'[q].retryCount = queue[q].retryCount
         /\ attempts'[q] = attempts[q]]_vars

\* a sweep run has selected an entry already marked permanentlyFailed again
\* and has dealt with it
C11_Witness ==
  \E q \in DOMAIN queue :
    /\ queue[q].permanentlyFailed
    /\ SweepMatches(queue[q])
    /\ sweeper.pc = "idle"
    /\ publisher[q] = "done"

\* C12: a RelayEntry with published=true has its messageId set and no error
\* recorded.
C12_Original ==
  \A q \in DOMAIN queue :
    queue[q].published =>
      queue[q].messageId # 0 /\ queue[q].error = NoError

\* C13: retryCount starts at 0 and a step increments it (by one) only when
\* the bus turned the step's publish away: a sweeper step that increments it
\* is one whose publish was rejected, and the reactive publisher's increment
\* comes only from an invocation whose publish was never accepted.
C13_Original ==
  [][\A q \in DOMAIN queue' :
       IF q \in DOMAIN queue
         THEN queue'[q].retryCount # queue[q].retryCount =>
                /\ queue'[q].retryCount = queue[q].retryCount + 1
                /\ \/ attempts'[q].rejected = attempts[q].rejected + 1
                   \/ /\ publisher[q] = "recordError"
                      /\ attempts[q].accepted = 0
         ELSE queue'[q].retryCount = 0]_vars

(* ---- intake: signature, validation, filters (C14 .. C18) -------------- *)
\* intake has finished with a request and created nothing for it
NothingCreated == intake.pc = "idle" /\ intake.jobId = 0

\* the signature header is the HMAC-SHA256 of the request body under the
\* shared secret
SignedOverBody(e) ==
  e.signature # <<>> /\ e.signature = Digest(e.body, webhookSecret)

\* C14: a request whose signature header is missing or is not the
\* HMAC-SHA256 of the request body under the shared secret is answered
\* Unauthorized with no webhook-event log, no Job and no RelayEntry written.
C14_Original ==
  (intake.request # NoRequest /\ ~SignedOverBody(intake.request)) =>
    /\ NothingCreated
    /\ intake.response = Unauthorized
    /\ ~intake.logged

\* the payload lacks the repository reference or a field its job type needs
MissingRequired(e) ==
  \/ ~e.repository
  \/ e.event = "pull_request" /\ PRAccepted(e) /\ (~e.pull_request \/ ~e.sender)
  \/ e.event = "push" /\ PushAccepted(e) /\ ~e.sender

\* C15: a request that passes the signature check and whose payload lacks a
\* required field creates no Job and no RelayEntry and is answered with a
\* validation error: not with a success, not with the internal error.
C15_Original ==
  (Authorized(intake.request) /\ MissingRequired(intake.request)) =>
    /\ NothingCreated
    /\ intake.response \notin {JobCreated, NoJobCreated, InternalError}

\* C16: a pull_request event that passes the signature check, carries its
\* repository reference and has an action other than opened, synchronize,
\* closed (or none) creates no Job and no RelayEntry and is answered
\* "Webhook received but no job created".
C16_OtherActionsNoJob ==
  ( /\ intake.request.event = "pull_request"
    /\ intake.request.action \notin {"opened", "synchronize", "closed"}
    /\ intake.request.repository
    /\ Authorized(intake.request) ) =>
    /\ NothingCreated
    /\ intake.response = NoJobCreated

C16_Witness ==
  /\ intake.request = Signed(PullRequest("labeled"))
  /\ intake.response = NoJobCreated
  /\ intake.logged
  /\ jobs = <<>> /\ queue = <<>>

\* C17: a push event whose ref is absent or ends in neither /main nor
\* /master creates no Job and no RelayEntry.
C17_OtherRefsNoJob ==
  ( /\ intake.request.event = "push"
    /\ ~RefEndsWith(intake.request.ref, "main")
    /\ ~RefEndsWith(intake.request.ref, "master") ) =>
    /\ NothingCreated
    /\ intake.response # JobCreated

C17_Witness ==
  /\ intake.request = Signed(Push(<<"refs", "heads", "feature-x">>))
  /\ intake.response = NoJobCreated
  /\ jobs = <<>> /\ queue = <<>>

\* C18: a push event for which intake creates a Job has ref refs/heads/main
\* or refs/heads/master.
C18_Original ==
  (intake.request.event = "push" /\ intake.jobId # 0) =>
    intake.request.ref \in
      {<<"refs", "heads", "main">>, <<"refs", "heads", "master">>}

(* ---- processing routines (C19, C20) ----------------------------------- *)
\* C19: when the read or analysis of files of a job throws, the routine
\* still returns, its result holds the other files to analyze in their
\* original order without the files that threw, and the invocation brings
\* the Job to completed, not to failed.
C19_PartialFailure ==
  /\ analysis.pc = "returned" =>
       PathsOf(analysis.result.files) =
         SelectSeq(PathsOf(analysis.filesToAnalyze),
                   LAMBDA path : path \notin analysis.thrown)
  /\ analysis.thrown # {} =>
       /\ analysis.pc \in {"loop", "returned"}
       /\ workers[1].pc # "catch"
       /\ jobs[1].status # "failed"
       /\ workers[1].pc = "idle" => jobs[1].status = "completed"

C19_Witness ==
  /\ analysis.pc = "returned"
  /\ analysis.jobType = "pr-analysis"
  /\ Len(analysis.files) = 3
  /\ analysis.thrown = {2}
  /\ PathsOf(analysis.result.files) = <<1, 3>>
  /\ workers[1].pc = "idle"
  /\ jobs[1].status = "completed"

\* C20: an initial-ingestion routine that returns has submitted exactly the
\* first min(n, 50) paths of its n-path listing to analysis, in listing
\* order, and its result records totalFiles = n and analyzedFiles = the
\* number of files analyzed (those submitted less those that threw).
C20_PrefixCap ==
  (analysis.jobType = "initial-ingestion" /\ analysis.pc = "returned") =>
    /\ analysis.submitted =
         [j \in 1..Min(Len(analysis.files), AnalysisCap) |->
            analysis.files[j].path]
    /\ analysis.result.totalFiles = Len(analysis.files)
    /\ analysis.result.analyzedFiles =
         Len(analysis.submitted) - Cardinality(analysis.thrown)
    /\ analysis.result.analyzedFiles = Len(analysis.result.files)

C20_Witness ==
  /\ analysis.jobType = "initial-ingestion"
  /\ analysis.pc = "returned"
  /\ Len(analysis.files) = ScenarioListing
  /\ analysis.thrown = {}
  /\ analysis.result.totalFiles = ScenarioListing
  /\ analysis.result.analyzedFiles = AnalysisCap
  /\ workers[1].pc = "idle"
  /\ jobs[1].status = "completed"

(* ---- failures of handle (C21, C22) ------------------------------------ *)
\* C21: an analyzeRepoWorker invocation for an existing Job ends either by
\* returning, with the Job written completed, or (whatever failed after the
\* first update: a collaborator, an unknown job type, the Result write, the
\* completion write) by throwing, with the Job written failed and its error
\* set to the caught error's message.
C21_FailThenRethrow ==
  [][\A w \in DOMAIN workers :
       ( /\ workers[w].handler = "analyzeRepoWorker"
         /\ JobExists(workers[w].jobId)
         /\ workers[w].pc # "idle"
         /\ workers'[w].pc = "idle" )
       => \/ /\ workers[w].error = NoError
             /\ workers'[w].outcome = "returned"
             /\ jobs'[workers[w].jobId].status = "completed"
          \/ /\ workers[w].error # NoError
             /\ workers'[w].outcome = "thrown"
             /\ jobs'[workers[w].jobId].status = "failed"
             /\ jobs'[workers[w].jobId].error = workers[w].error]_vars

C21_Witness ==
  /\ JobExists(1)
  /\ jobs[1].jobType = "delta-analysis"
  /\ jobs[1].status = "failed"
  /\ jobs[1].error = "Unknown job type"
  /\ workers[1].outcome = "thrown"

\* C22: handling a message whose jobId names no Job record creates no Job
\* record and no Result record for that id.
C22_Original ==
  \A r \in DOMAIN results : JobExists(results[r].jobId)

(* ---- the Job's history (C23, C24) -------------------------------------- *)
\* the next status of the sequence queued, dispatched, in-progress, completed
Successor(status) ==
  CASE status = "queued" -> "dispatched"
    [] status = "dispatched" -> "in-progress"
    [] status = "in-progress" -> "completed"
    [] OTHER -> "none"

\* C23: when the bus accepted the first publish and nothing failed, every
\* change of a Job's status goes to the next status of the sequence queued,
\* dispatched, in-progress, completed, in every interleaving of the
\* publisher's Job update with the handling of the delivered message, and a
\* completed Job stays completed.
C23_Original ==
  [][\A j \in DOMAIN jobs :
       ( /\ jobs'[j].status # jobs[j].status
         /\ jobs'[j].status # "failed"
         /\ \A q \in DOMAIN attempts : attempts'[q].rejected = 0
         /\ \A w \in DOMAIN workers : workers'[w].outcome # "thrown" )
       => jobs'[j].status = Successor(jobs[j].status)]_vars

\* C24: createdAt, startedAt and completedAt of a Job are each written at
\* most once over the Job's whole history.
C24_Original ==
  \A j \in DOMAIN jobs :
    /\ jobs[j].createdAt <= 1
    /\ jobs[j].startedAt <= 1
    /\ jobs[j].completedAt <= 1

(* ---- the AI collaborator (C25) ----------------------------------------- *)
\* the generate operations a routine reached, with a model that is not
\* configured or with a call that threw
Outage ==
  /\ analysis.calls # <<>>
  /\ \/ ~isAvailable(analysis.model)
     \/ \E k \in DOMAIN analysis.calls : analysis.calls[k] = "throws"

\* C25: when the model is not configured or a call to it throws, each
\* generate operation returns the fallback document of the requested kind
\* and the routine returns; the Job is not written failed and, once the
\* invocation has ended, it is completed.
C25_FallbackNeverFails ==
  Outage =>
    /\ analysis.pc = "returned"
    /\ \A k \in DOMAIN analysis.calls :
         /\ analysis.result.documentation[k].type
              = Requested(analysis.jobType)[k]
         /\ analysis.calls[k] # "text"
              => analysis.result.documentation[k].model = "fallback"
    /\ jobs[1].status # "failed"
    /\ workers[1].pc = "idle" => jobs[1].status = "completed"

C25_Witness ==
  /\ analysis.jobType = "initial-ingestion"
  /\ analysis.calls = <<"text", "throws">>
  /\ analysis.result.documentation[2] = Fallback("architecture")
  /\ analysis.result.documentation[1].model = "gemini"
  /\ jobs[1].status = "completed"

(* ---- concurrent publisher runs (C26) ----------------------------------- *)
\* C26: a run of the reactive publisher that reaches createTopic after the
\* other run created the topic does not fail for that: it goes on to
\* publish, and records no error for its entry.
C26_Original ==
  [][\A q \in DOMAIN publisher :
       ( /\ publisher[q] = "createTopic"
         /\ topicExists
         /\ publisher'[q] \notin {"createTopic", "done"} )
       => /\ publisher'[q] = "publish"
          /\ attempts'[q].rejected = attempts[q].rejected]_vars

(* ---- the sweep's selection (C27) --------------------------------------- *)
\* C27: every entry a sweep run selects is, at selection time, unpublished,
\* carries an error, is not permanentlyFailed, and had its last attempt
\* before the cut-off.
C27_Original ==
  [][( sweeper.pc = "idle" /\ sweeper'.pc = "running" )
       => \A doc \in sweeper'.batch :
            /\ queue[doc.id].published = FALSE
            /\ queue[doc.id].error # NoError
            /\ queue[doc.id].permanentlyFailed = FALSE
            /\ queue[doc.id].lastAttemptAt = "old"]_vars

(* ---- Job and Result (C29) ---------------------------------------------- *)
\* C29: a Job with status completed has a resultId that names an existing
\* Result record whose jobId is that Job's id.
C29_CompletedHasResult ==
  \A j \in DOMAIN jobs :
    jobs[j].status = "completed"
      => /\ jobs[j].resultId \in DOMAIN results
         /\ results[jobs[j].resultId].jobId = j

\* both subscribers completed the Job: it names the later Result
C29_Witness ==
  /\ Len(results) = 2
  /\ jobs[1].status = "completed"
  /\ jobs[1].completedAt = 2
  /\ jobs[1].resultId = 2

(* ---- what a sweep writes (C30) ----------------------------------------- *)
\* C30: a step of a sweep run leaves every Job record (and every Result)
\* unchanged, whether it selects, retries with success, retries with
\* failure or marks the entry permanentlyFailed.
C30_SweepLeavesJobs ==
  [][sweeper' # sweeper => jobs' = jobs /\ results' = results]_vars

\* after a successful sweeper retry the Job is still failed, as the reactive
\* publisher's catch block left it
C30_Witness ==
  \E q \in DOMAIN queue :
    /\ queue[q].published
    /\ queue[q].error = NoError
    /\ queue[q].retryCount >= 1
    /\ jobs[queue[q].jobId].status = "failed"
    /\ jobs[queue[q].jobId].error = "publish failed"

(* ---- a push's changed files (C28) -------------------------------------- *)
\* the modified and added paths of the commits in the order the commits list
\* them
RECURSIVE Listed(_)
Listed(commits) ==
  IF commits = <<>> THEN <<>>
  ELSE Head(commits).modified \o Head(commits).added \o Listed(Tail(commits))

FirstOccurrence(list, path) ==
  CHOOSE i \in DOMAIN list :
    list[i] = path /\ \A k \in 1..(i - 1) : list[k] # path

\* C28: the changedFiles of a push Job is the duplicate-free list, in order
\* of first occurrence, of the added and modified paths of the push's
\* commits (no path that is only removed); the RelayEntry's payload and the
\* published message carry the same list; analyzeRepoWorker submits exactly
\* these paths to analysis, in order, and once it has returned the Job's
\* completing update has been written.
C28_ChangedFilesCarried ==
  \A j \in DOMAIN jobs :
    LET changed == jobs[j].changedFiles
        listed == Listed(intake.request.commits)
    IN  /\ j = intake.jobId =>
             /\ \A a, b \in DOMAIN changed : a < b =>
                  /\ changed[a] # changed[b]
                  /\ FirstOccurrence(listed, changed[a])
                       < FirstOccurrence(listed, changed[b])
             /\ {changed[a] : a \in DOMAIN changed}
                  = {listed[i] : i \in DOMAIN listed}
        /\ \A q \in DOMAIN queue :
             queue[q].jobId = j => queue[q].changedFiles = changed
        /\ \A m \in bus : m.jobId = j => m.changedFiles = changed
        /\ analysis.pc = "returned" =>
             /\ PathsOf(analysis.files) = changed
             /\ analysis.submitted = changed
        /\ workers[1].outcome = "returned" =>
             /\ jobs[j].completedAt = 1
             /\ jobs[j].resultId \in DOMAIN results

C28_Witness ==
  /\ Len(intake.request.commits) = 2
  /\ intake.request.commits[1].modified = <<2>>
  /\ intake.request.commits[1].added = <<1>>
  /\ intake.request.commits[2].modified = <<2>>
  /\ intake.request.commits[2].removed = <<1>>
  /\ JobExists(1)
  /\ jobs[1].changedFiles = <<2, 1>>
  /\ analysis.submitted = <<2, 1>>
  /\ jobs[1].status = "completed"
====
